---- MODULE Spec2Model ----
(***************************************************************************)
(* Model of project_loader.py: the run of main() as a state machine.       *)
(*                                                                         *)
(* A directory or file name is a sequence of one-character strings, so     *)
(* that str.startswith is computed character by character.  A path is a    *)
(* sequence of names ("/w/a" is <<w, a>>); os.path.join(p, n) appends a    *)
(* component and os.path.split(p) takes the last one off.  A shell command *)
(* is a string, concatenated with \o as Python's + does.                   *)
(***************************************************************************)
EXTENDS Integers, Sequences, FiniteSets, TLC

VARIABLES
    fs,                    \* the filesystem: a sequence of entries, in listing order
    environ,               \* os.environ: whether SHELL is set, and its value
    mode,                  \* parse_args: "config" (--project-config) or "find" (--find-project)
    config,                \* the dict load_configs returned; check_dependency_manager mutates it
    pc,                    \* position of main()
    choices,               \* the list handed to the inquirer list prompt
    root_idx,              \* get_possible_project_directories: next index in default_projects_paths
    stack,                 \* os.walk: directories still to visit, next first
    walk_root,             \* the configured root os.walk is running on
    possible_directories,  \* get_possible_project_directories: the list built so far
    yielded_from,          \* for each element of possible_directories, the root whose walk yielded it
    projects_paths_dict,   \* find_project_by_name: leaf name -> parent path
    project_path,          \* main: the selected project path
    manager,               \* check_dependency_manager: the detected manager, or NoManager
    decision,              \* what the user answered at the activate-environment prompt
    spawned,               \* the os.system calls made: records of cwd, shell, commands, decision
    exit_code,             \* -1 while running, then the process's exit code
    cancelled,             \* "" or the prompt at which the user cancelled
    fault,                 \* "" or the exception that ended the run
    printed,               \* what the run printed to the user
    steps,                 \* the later steps that have run: "detect", "modify", "compose", "spawn"
    base_commands,         \* config['custom_commands'] as loaded
    runs                   \* how many times check_dependency_manager + open_project_terminal ran

vars == <<fs, environ, mode, config, pc, choices, root_idx, stack, walk_root,
          possible_directories, yielded_from, projects_paths_dict, project_path,
          manager, decision, spawned, exit_code, cancelled, fault, printed,
          steps, base_commands, runs>>

(***************************************************************************)
(* Bounds of the model.                                                    *)
(***************************************************************************)
MaxRoots    == 2   \* length of default_projects_paths
MaxManagers == 2   \* length of dependency_managers
MaxCommands == 2   \* length of custom_commands
MaxRuns     == 2   \* invocations of the check-and-open step on one config (SpecRepeat)

(***************************************************************************)
(* Names and paths.                                                        *)
(***************************************************************************)
nW    == <<"w">>
nA    == <<"a">>
nB    == <<"b">>
nP    == <<"p">>
nQ    == <<"q">>
nL    == <<"l">>
nX    == <<"x">>
nDotG == <<".", "g">>
nNM   == <<"n", "m">>
nPf   == <<"P", "f">>
nPo   == <<"p", "o">>
nVe   == <<"v", "e">>
nZZ   == <<"z", "z">>
nSp   == <<"a", " ", "b">>
Empty == <<>>

NoPath == <<<<"!">>>>

Front(s) == SubSeq(s, 1, Len(s) - 1)
Last(s)  == s[Len(s)]

\* os.path.join(a, b) for a relative b
join(a, b) == Append(a, b)

\* os.path.split(p): (head, tail); split("/") is ("/", "")
split(p) == IF p = <<>> THEN <<Empty, Empty>> ELSE <<Front(p), Last(p)>>

(***************************************************************************)
(* The filesystem.  An entry is a directory, a file or a symbolic link to  *)
(* a directory; a directory's listing is its entries in sequence order.    *)
(***************************************************************************)
Dir(parent, name)          == [parent |-> parent, name |-> name, kind |-> "dir",  target |-> Empty]
File(parent, name)         == [parent |-> parent, name |-> name, kind |-> "file", target |-> Empty]
Link(parent, name, target) == [parent |-> parent, name |-> name, kind |-> "link", target |-> target]

FsUniverse ==
    << Dir(<<>>, nW),
       Dir(<<nW>>, nA),
       File(<<nW>>, nPf),
       Dir(<<nW>>, nB),
       Dir(<<nW, nA>>, nP),
       File(<<nW, nA>>, nPf),
       Dir(<<nW, nA>>, nDotG),
       File(<<nW, nA>>, nPo),
       Dir(<<nW, nA, nDotG>>, nP),
       Dir(<<nW, nB>>, nP),
       Dir(<<nW, nB>>, nNM),
       File(<<nW, nB>>, nVe),
       Link(<<nW, nB>>, nL, <<nW>>),
       Dir(<<nW, nB, nNM>>, nQ),
       File(<<nW, nB, nP>>, nVe),
       File(<<nW, nB, nP>>, nPo) >>

RECURSIVE Reverse(_)
Reverse(s) == IF s = <<>> THEN <<>> ELSE Append(Reverse(Tail(s)), Head(s))

IsPrefix(r, p) == Len(r) <= Len(p) /\ SubSeq(p, 1, Len(r)) = r

RECURSIVE Without(_, _)
\* the filesystem with the subtrees at the paths of `gone` removed
Without(fsx, gone) ==
    IF fsx = <<>> THEN <<>>
    ELSE LET e == Head(fsx)
             rest == Without(Tail(fsx), gone)
         IN IF \E g \in gone : IsPrefix(g, join(e.parent, e.name)) THEN rest ELSE <<e>> \o rest

Entries(fsx) == {fsx[i] : i \in 1..Len(fsx)}

DirExists(fsx, p) ==
    p = <<>> \/ \E e \in Entries(fsx) : e.kind = "dir" /\ join(e.parent, e.name) = p

RECURSIVE RealFrom(_, _, _)
\* the real directory a path leads to from the real directory cur, following
\* symbolic links; NoPath when it leads to no directory
RealFrom(fsx, cur, rest) ==
    IF rest = <<>> THEN cur
    ELSE LET n == Head(rest)
             hits == {e \in Entries(fsx) : e.parent = cur /\ e.name = n}
         IN IF n = <<>> THEN RealFrom(fsx, cur, Tail(rest))
            ELSE IF hits = {} THEN NoPath
            ELSE LET e == CHOOSE h \in hits : TRUE
                 IN IF e.kind = "dir" THEN RealFrom(fsx, join(cur, n), Tail(rest))
                    ELSE IF e.kind = "link" /\ DirExists(fsx, e.target)
                         THEN RealFrom(fsx, e.target, Tail(rest))
                    ELSE NoPath

\* os.path.realpath of a directory path
realpath(fsx, p) == RealFrom(fsx, <<>>, p)

\* os.path.isdir(p): follows symbolic links
isdir(fsx, p) == realpath(fsx, p) # NoPath

\* os.path.islink(p)
islink(fsx, p) ==
    /\ p # <<>>
    /\ realpath(fsx, Front(p)) # NoPath
    /\ \E e \in Entries(fsx) :
          e.parent = realpath(fsx, Front(p)) /\ e.name = Last(p) /\ e.kind = "link"

RECURSIVE NamesIn(_, _)
NamesIn(fsx, real) ==
    IF fsx = <<>> THEN <<>>
    ELSE IF Head(fsx).parent = real
         THEN <<Head(fsx).name>> \o NamesIn(Tail(fsx), real)
         ELSE NamesIn(Tail(fsx), real)

\* os.listdir(p), for a p that is a directory
listdir(fsx, p) == NamesIn(fsx, realpath(fsx, p))

(***************************************************************************)
(* filter_directories                                                      *)
(***************************************************************************)
\* str.startswith(prefix)
startswith(d, prefix) == Len(prefix) <= Len(d) /\ SubSeq(d, 1, Len(prefix)) = prefix

\* keeps without the test of the prefixes
keeps_NoPrefix(d, cfg) == d \notin cfg.exclude_dirs

\* the condition of the comprehension: d is kept
keeps(d, cfg) ==
    /\ d \notin cfg.exclude_dirs
    /\ ~ \E x \in cfg.exclude_prefixes : startswith(d, x)

RECURSIVE filter_directories(_, _)
filter_directories(directories, cfg) ==
    IF directories = <<>> THEN <<>>
    ELSE IF keeps(Head(directories), cfg)
         THEN <<Head(directories)>> \o filter_directories(Tail(directories), cfg)
         ELSE filter_directories(Tail(directories), cfg)

RECURSIVE OnlyDirs(_, _, _)
\* the names of a listing that are directories (symbolic links followed)
OnlyDirs(fsx, top, names) ==
    IF names = <<>> THEN <<>>
    ELSE IF isdir(fsx, join(top, Head(names)))
         THEN <<Head(names)>> \o OnlyDirs(fsx, top, Tail(names))
         ELSE OnlyDirs(fsx, top, Tail(names))

\* get_subproject_choices, for a project_path that is a directory
get_subproject_choices(fsx, cfg) ==
    filter_directories(OnlyDirs(fsx, cfg.project_path, listdir(fsx, cfg.project_path)), cfg)

RECURSIVE Descend(_, _, _)
\* os.walk: the subdirectories it goes on to visit, those that are no symbolic links
Descend(fsx, top, dirs) ==
    IF dirs = <<>> THEN <<>>
    ELSE IF islink(fsx, join(top, Head(dirs)))
         THEN Descend(fsx, top, Tail(dirs))
         ELSE <<join(top, Head(dirs))>> \o Descend(fsx, top, Tail(dirs))

(***************************************************************************)
(* Dependency managers and command composition.                            *)
(***************************************************************************)
NoManager == [name |-> "", file |-> Empty, activation |-> "", command |-> ""]

Pipenv == [name |-> "pipenv", file |-> nPf, activation |-> "", command |-> "pipenv run"]
Poetry == [name |-> "poetry", file |-> nPo, activation |-> "", command |-> "poetry run"]
Venv   == [name |-> "venv", file |-> nVe, activation |-> "source ve/bin/activate", command |-> ""]

ToSet(s) == {s[i] : i \in 1..Len(s)}

RECURSIVE LastManager(_, _)
\* FirstManager without the break: the last match wins
LastManager(managers, dir_content) ==
    IF managers = <<>> THEN NoManager
    ELSE IF Last(managers).file \in ToSet(dir_content) THEN Last(managers)
    ELSE LastManager(Front(managers), dir_content)

RECURSIVE FirstManager(_, _)
\* the for ... else loop of check_dependency_manager: the first manager_info
\* whose file is in dir_content, NoManager when the loop runs out
FirstManager(managers, dir_content) ==
    IF managers = <<>> THEN NoManager
    ELSE IF Head(managers).file \in ToSet(dir_content) THEN Head(managers)
    ELSE FirstManager(Tail(managers), dir_content)

\* add_env_to_custom_commands without the space after the manager's command
add_env_NoSpace(mgr, custom_commands) ==
    IF mgr.activation # ""
    THEN <<mgr.activation>> \o custom_commands
    ELSE [i \in 1..Len(custom_commands) |-> mgr.command \o custom_commands[i]]

add_env_to_custom_commands(mgr, custom_commands) ==
    IF mgr.activation # ""
    THEN <<mgr.activation>> \o custom_commands
    ELSE [i \in 1..Len(custom_commands) |-> mgr.command \o " " \o custom_commands[i]]

\* open_project_terminal: commands_to_execute
commands_to_execute(cfg) == cfg.custom_commands \o <<cfg.editor \o " .">>

\* open_project_terminal: commands_plus_echo
commands_plus_echo(cfg) ==
    [i \in 1..Len(commands_to_execute(cfg)) |->
        "echo -e \\\"\\033[1;36mExecuting command:\\033[0m\\\" \\\"\\033[1;32m"
            \o commands_to_execute(cfg)[i] \o "\\033[0m\\\";"
            \o commands_to_execute(cfg)[i] \o ";"]

\* a string of the environment, character by character
ShBinBash   == <<"/", "b", "i", "n", "/", "b", "a", "s", "h">>
ShUsrBinZsh == <<"/", "u", "s", "r", "/", "b", "i", "n", "/", "z", "s", "h">>
ShFish      == <<"f", "i", "s", "h">>
ShBinSlash  == <<"/", "b", "i", "n", "/">>

Unset    == [has_SHELL |-> FALSE, SHELL |-> Empty]
Set(val) == [has_SHELL |-> TRUE, SHELL |-> val]

\* os.environ.get('SHELL', '/bin/bash')
environ_get_SHELL(env) == IF env.has_SHELL THEN env.SHELL ELSE ShBinBash

\* str.rpartition('/')[2]: what follows the last '/', the whole string when
\* it holds none
rpartition_tail(str) ==
    LET slashes == {i \in 1..Len(str) : str[i] = "/"}
        last == IF slashes = {} THEN 0
                ELSE CHOOSE i \in slashes : \A j \in slashes : j <= i
    IN SubSeq(str, last + 1, Len(str))

get_default_shell(env) == rpartition_tail(environ_get_SHELL(env))

\* the validator of the search prompt: ' ' not in text
validator(text) == \A i \in 1..Len(text) : text[i] # " "

RECURSIVE DictOf(_)
\* {project: path for path, project in parts}: a later part replaces an earlier
\* one with the same project name
DictOf(parts) ==
    IF parts = <<>> THEN <<>>
    ELSE LET d == DictOf(Front(parts))
             path == Last(parts)[1]
             project == Last(parts)[2]
         IN [n \in (DOMAIN d) \cup {project} |-> IF n = project THEN path ELSE d[n]]

(***************************************************************************)
(* Initial states: the arguments parsed and the configuration loaded.      *)
(***************************************************************************)
SeqsUpTo(S, n) == UNION {[1..k -> S] : k \in 0..n}

Start(fsx, env, m, cfg) ==
    /\ fs = fsx
    /\ environ = env
    /\ mode = m
    /\ config = cfg
    /\ pc = "main"
    /\ choices = <<>>
    /\ root_idx = 1
    /\ stack = <<>>
    /\ walk_root = Empty
    /\ possible_directories = <<>>
    /\ yielded_from = <<>>
    /\ projects_paths_dict = <<>>
    /\ project_path = Empty
    /\ manager = NoManager
    /\ decision = "none"
    /\ spawned = <<>>
    /\ exit_code = -1
    /\ cancelled = ""
    /\ fault = ""
    /\ printed = <<>>
    /\ steps = {}
    /\ base_commands = cfg.custom_commands
    /\ runs = 1

\* inputs that vary the managers, the commands and the activation policy
Init ==
    \E m \in {"config", "find"}, multi \in BOOLEAN, auto \in BOOLEAN, ask \in BOOLEAN,
       ms \in SeqsUpTo({Pipenv, Poetry, Venv}, MaxManagers),
       cs \in SeqsUpTo({"ls", "git status"}, MaxCommands),
       env \in {Unset, Set(ShUsrBinZsh), Set(ShFish), Set(ShBinSlash), Set(Empty)} :
        Start(FsUniverse, env, m,
              [project_path |-> <<nW>>, multiple_subprojects |-> multi,
               default_projects_paths |-> << <<nW>> >>,
               exclude_dirs |-> {nNM}, exclude_prefixes |-> {<<".">>},
               dependency_managers |-> ms, custom_commands |-> cs, editor |-> "code",
               automatically_run_commands_in_env |-> auto,
               ask_for_env_activation |-> ask])

\* inputs that vary the directory tree, the roots and the exclusions
InitIndex ==
    \E m \in {"config", "find"}, rev \in BOOLEAN,
       gone \in SUBSET {<<nW, nA, nDotG>>, <<nW, nB>>},
       pp \in {<<nW, nB>>, <<nX>>},
       roots \in SeqsUpTo({<<nW>>, <<nW, nA, nDotG>>, <<nW, nB, nL>>, <<nX>>}, MaxRoots),
       xd \in {{}, {nNM}, {nNM, nP}},
       xp \in {{}, {<<".">>}, {<<".">>, <<"n">>}, {Empty}},
       env \in {Unset, Set(ShUsrBinZsh)} :
        Start(Without(IF rev THEN Reverse(FsUniverse) ELSE FsUniverse, gone), env, m,
              [project_path |-> pp, multiple_subprojects |-> TRUE,
               default_projects_paths |-> roots,
               exclude_dirs |-> xd, exclude_prefixes |-> xp,
               dependency_managers |-> <<Pipenv, Venv>>, custom_commands |-> <<"ls">>,
               editor |-> "code",
               automatically_run_commands_in_env |-> FALSE,
               ask_for_env_activation |-> TRUE])

(***************************************************************************)
(* How a run ends.                                                         *)
(***************************************************************************)
\* exit(0)
Exit0(at) == /\ pc' = "exit" /\ exit_code' = 0 /\ cancelled' = at /\ fault' = ""

\* an exception nothing catches: the interpreter prints it and exits with 1
Raise(exc) == /\ pc' = "exit" /\ exit_code' = 1 /\ fault' = exc /\ cancelled' = ""

\* main() returns: the interpreter exits with 0
Return == /\ pc' = "exit" /\ exit_code' = 0 /\ cancelled' = "" /\ fault' = ""

Running(next) == /\ pc' = next /\ UNCHANGED <<exit_code, cancelled, fault>>

(***************************************************************************)
(* --project-config: select_project                                        *)
(***************************************************************************)
SelectProject ==
    /\ pc = "main" /\ mode = "config"
    /\ IF config.multiple_subprojects
       THEN IF isdir(fs, config.project_path)
            THEN /\ choices' = get_subproject_choices(fs, config)
                 /\ Running("ask_project")
            ELSE /\ Raise("FileNotFoundError")
                 /\ UNCHANGED choices
       ELSE /\ Running("check")
            /\ UNCHANGED choices
    /\ project_path' = IF config.multiple_subprojects THEN project_path
                       ELSE join(config.project_path, Empty)
    /\ UNCHANGED <<fs, environ, mode, config, root_idx, stack, walk_root, possible_directories,
                   yielded_from, projects_paths_dict, manager, decision, spawned,
                   printed, steps, base_commands, runs>>

\* ask_for_subproject_from_choices: the user picks one of the choices
AskSubprojectAnswer ==
    /\ pc = "ask_project"
    /\ \E c \in ToSet(choices) : project_path' = join(config.project_path, c)
    /\ Running("check")
    /\ UNCHANGED <<fs, environ, mode, config, choices, root_idx, stack, walk_root,
                   possible_directories, yielded_from, projects_paths_dict, manager,
                   decision, spawned, printed, steps, base_commands, runs>>

\* AskSubprojectCancel with `return ''` in place of exit(0): the run goes on
AskSubprojectCancel_Continue ==
    /\ pc = "ask_project"
    /\ project_path' = join(config.project_path, Empty)
    /\ pc' = "check" /\ cancelled' = "list"
    /\ UNCHANGED <<fs, environ, mode, config, choices, root_idx, stack, walk_root,
                   possible_directories, yielded_from, projects_paths_dict, manager,
                   decision, spawned, exit_code, fault, printed, steps, base_commands,
                   runs>>

\* ask_for_subproject_from_choices: inquirer.prompt returns None
AskSubprojectCancel ==
    /\ pc = "ask_project"
    /\ Exit0("list")
    /\ UNCHANGED <<fs, environ, mode, config, choices, root_idx, stack, walk_root,
                   possible_directories, yielded_from, projects_paths_dict, project_path,
                   manager, decision, spawned, printed, steps, base_commands, runs>>

(***************************************************************************)
(* --find-project: find_project_by_name                                    *)
(***************************************************************************)
StartWalk ==
    /\ pc = "main" /\ mode = "find"
    /\ Running("walk")
    /\ UNCHANGED <<fs, environ, mode, config, choices, root_idx, stack, walk_root,
                   possible_directories, yielded_from, projects_paths_dict, project_path,
                   manager, decision, spawned, printed, steps, base_commands, runs>>

\* get_possible_project_directories: the outer loop takes the next root
WalkNextRoot ==
    /\ pc = "walk" /\ stack = <<>>
    /\ root_idx <= Len(config.default_projects_paths)
    /\ stack' = <<config.default_projects_paths[root_idx]>>
    /\ walk_root' = config.default_projects_paths[root_idx]
    /\ root_idx' = root_idx + 1
    /\ UNCHANGED <<fs, environ, mode, config, pc, choices, possible_directories, yielded_from,
                   projects_paths_dict, project_path, manager, decision, spawned,
                   exit_code, cancelled, fault, printed, steps, base_commands, runs>>

\* one iteration of `for root, dirs, files in os.walk(projects_path)`: os.walk
\* (top-down, followlinks=False) lists the next directory and yields it, the
\* body prunes dirs in place and appends root, os.walk goes on with the dirs
\* that are left and are no symbolic links.  A top that cannot be listed
\* yields nothing.
WalkStep ==
    /\ pc = "walk" /\ stack # <<>>
    /\ LET top == Head(stack)
           dirs == filter_directories(OnlyDirs(fs, top, listdir(fs, top)), config)
       IN IF isdir(fs, top)
          THEN /\ possible_directories' = Append(possible_directories, top)
               /\ yielded_from' = Append(yielded_from, walk_root)
               /\ stack' = Descend(fs, top, dirs) \o Tail(stack)
          ELSE /\ stack' = Tail(stack)
               /\ UNCHANGED <<possible_directories, yielded_from>>
    /\ UNCHANGED <<fs, environ, mode, config, pc, choices, root_idx, walk_root,
                   projects_paths_dict, project_path, manager, decision, spawned,
                   exit_code, cancelled, fault, printed, steps, base_commands, runs>>

\* parts and projects_paths_dict, then the prompt is shown
BuildIndex ==
    /\ pc = "walk" /\ stack = <<>>
    /\ root_idx > Len(config.default_projects_paths)
    /\ projects_paths_dict' =
          DictOf([i \in 1..Len(possible_directories) |-> split(possible_directories[i])])
    /\ Running("prompt")
    /\ UNCHANGED <<fs, environ, mode, config, choices, root_idx, stack, walk_root,
                   possible_directories, yielded_from, project_path, manager, decision,
                   spawned, printed, steps, base_commands, runs>>

\* what the user may type at the search prompt
Typed == (DOMAIN projects_paths_dict) \cup {nZZ, nSp, Empty}

\* the user submits a text the validator accepts; the lookup
\* projects_paths_dict[project] raises KeyError for a text that is no key
PromptSubmit ==
    /\ pc = "prompt"
    /\ \E text \in Typed :
          /\ validator(text)
          /\ IF text \in DOMAIN projects_paths_dict
             THEN /\ project_path' = join(projects_paths_dict[text], text)
                  /\ Running("check")
             ELSE /\ Raise("KeyError")
                  /\ UNCHANGED project_path
    /\ UNCHANGED <<fs, environ, mode, config, choices, root_idx, stack, walk_root,
                   possible_directories, yielded_from, projects_paths_dict, manager,
                   decision, spawned, printed, steps, base_commands, runs>>

\* KeyboardInterrupt at the search prompt
PromptInterrupt ==
    /\ pc = "prompt"
    /\ printed' = Append(printed, "\nCancelled by user\n")
    /\ Exit0("search")
    /\ UNCHANGED <<fs, environ, mode, config, choices, root_idx, stack, walk_root,
                   possible_directories, yielded_from, projects_paths_dict, project_path,
                   manager, decision, spawned, steps, base_commands, runs>>

(***************************************************************************)
(* check_dependency_manager and open_project_terminal                      *)
(***************************************************************************)
WithEnv(cfg, mgr) ==
    [cfg EXCEPT !.custom_commands = add_env_to_custom_commands(mgr, cfg.custom_commands)]

\* check_dependency_manager up to its return or its prompt
CheckDependencyManager ==
    /\ pc = "check"
    /\ decision' = "none"
    /\ IF ~ isdir(fs, project_path)
       THEN /\ Raise("FileNotFoundError")
            /\ UNCHANGED <<manager, config, steps>>
       ELSE LET m == FirstManager(config.dependency_managers, listdir(fs, project_path))
            IN /\ manager' = m
               /\ IF m = NoManager
                  THEN /\ Running("open")
                       /\ steps' = steps \cup {"detect"}
                       /\ UNCHANGED config
                  ELSE IF config.automatically_run_commands_in_env
                  THEN /\ config' = WithEnv(config, m)
                       /\ steps' = steps \cup {"detect", "modify"}
                       /\ Running("open")
                  ELSE IF config.ask_for_env_activation
                  THEN /\ Running("ask_env")
                       /\ steps' = steps \cup {"detect"}
                       /\ UNCHANGED config
                  ELSE /\ Running("open")
                       /\ steps' = steps \cup {"detect"}
                       /\ UNCHANGED config
    /\ UNCHANGED <<fs, environ, mode, choices, root_idx, stack, walk_root, possible_directories,
                   yielded_from, projects_paths_dict, project_path, spawned, printed,
                   base_commands, runs>>

\* AskEnvAnswer without the test of the answer: the environment is added
\* whatever the user answered
AskEnvAnswer_Always ==
    /\ pc = "ask_env"
    /\ \E a \in {"Yes please", "Nope"} : decision' = a
    /\ config' = WithEnv(config, manager)
    /\ steps' = steps \cup {"modify"}
    /\ Running("open")
    /\ UNCHANGED <<fs, environ, mode, choices, root_idx, stack, walk_root, possible_directories,
                   yielded_from, projects_paths_dict, project_path, manager, spawned,
                   printed, base_commands, runs>>

\* the user answers the activate-environment prompt
AskEnvAnswer ==
    /\ pc = "ask_env"
    /\ \E a \in {"Yes please", "Nope"} :
          /\ decision' = a
          /\ IF a = "Yes please"
             THEN /\ config' = WithEnv(config, manager)
                  /\ steps' = steps \cup {"modify"}
             ELSE UNCHANGED <<config, steps>>
    /\ Running("open")
    /\ UNCHANGED <<fs, environ, mode, choices, root_idx, stack, walk_root, possible_directories,
                   yielded_from, projects_paths_dict, project_path, manager, spawned,
                   printed, base_commands, runs>>

\* inquirer.prompt returns None at the activate-environment prompt
AskEnvCancel ==
    /\ pc = "ask_env"
    /\ Exit0("env")
    /\ UNCHANGED <<fs, environ, mode, config, choices, root_idx, stack, walk_root,
                   possible_directories, yielded_from, projects_paths_dict, project_path,
                   manager, decision, spawned, printed, steps, base_commands, runs>>

\* open_project_terminal, then main returns
OpenProjectTerminal ==
    /\ pc = "open"
    /\ spawned' = Append(spawned, [cwd |-> project_path,
                                   shell |-> get_default_shell(environ),
                                   commands |-> commands_to_execute(config),
                                   echoed |-> commands_plus_echo(config),
                                   manager |-> manager,
                                   decision |-> decision])
    /\ steps' = steps \cup {"compose", "spawn"}
    /\ Return
    /\ UNCHANGED <<fs, environ, mode, config, choices, root_idx, stack, walk_root,
                   possible_directories, yielded_from, projects_paths_dict, project_path,
                   manager, decision, printed, base_commands, runs>>

\* check_dependency_manager and open_project_terminal called once more with
\* the config dict the first call was given
Rerun ==
    /\ pc = "exit" /\ exit_code = 0 /\ cancelled = "" /\ spawned # <<>>
    /\ runs < MaxRuns
    /\ runs' = runs + 1
    /\ pc' = "check"
    /\ exit_code' = -1
    /\ UNCHANGED <<fs, environ, mode, config, choices, root_idx, stack, walk_root,
                   possible_directories, yielded_from, projects_paths_dict, project_path,
                   manager, decision, spawned, cancelled, fault, printed, steps,
                   base_commands>>

Next ==
    \/ SelectProject
    \/ AskSubprojectAnswer
    \/ AskSubprojectCancel
    \/ StartWalk
    \/ WalkNextRoot
    \/ WalkStep
    \/ BuildIndex
    \/ PromptSubmit
    \/ PromptInterrupt
    \/ CheckDependencyManager
    \/ AskEnvAnswer
    \/ AskEnvCancel
    \/ OpenProjectTerminal

NextRepeat == Next \/ Rerun

Spec       == Init /\ [][Next]_vars
SpecIndex  == InitIndex /\ [][Next]_vars
SpecRepeat == Init /\ [][NextRepeat]_vars

(***************************************************************************)
(* Properties.                                                             *)
(***************************************************************************)
\* a name the exclusion configuration names: in exclude_dirs, or starting
\* with one of exclude_prefixes
Excluded(name, cfg) ==
    \/ name \in cfg.exclude_dirs
    \/ \E x \in cfg.exclude_prefixes :
          Len(x) <= Len(name) /\ \A k \in 1..Len(x) : name[k] = x[k]

Yielded == 1..Len(possible_directories)

\* C1, as claimed: the indexer never yields a directory whose leaf name is
\* excluded, nor a directory that has an excluded directory above it.
C1_NoExcludedYield ==
    \A i \in Yielded :
        \A k \in 1..Len(possible_directories[i]) :
            ~ Excluded(possible_directories[i][k], config)

\* C1, amended: every yielded directory is at or below the configured root
\* whose walk yielded it, and no path component below that root is excluded
\* (the components of the root path itself are not tested).
C1_PrunedBelowRoot ==
    \A i \in Yielded :
        LET p == possible_directories[i]
            r == yielded_from[i]
        IN /\ Len(r) <= Len(p)
           /\ \A k \in 1..Len(r) : p[k] = r[k]
           /\ \A k \in (Len(r) + 1)..Len(p) : ~ Excluded(p[k], config)

\* C1 witness: the walk is over, and it yielded a directory that holds an
\* excluded directory which itself holds a directory whose name is not excluded.
C1_Witness ==
    /\ pc = "prompt"
    /\ \E i \in Yielded, e \in Entries(fs), c \in Entries(fs) :
          /\ e.kind = "dir" /\ e.parent = realpath(fs, possible_directories[i])
          /\ Excluded(e.name, config)
          /\ c.kind = "dir" /\ c.parent = join(e.parent, e.name)
          /\ ~ Excluded(c.name, config)

\* C2: once the user has cancelled at the project-selection prompt (list
\* prompt or search prompt), dependency-manager detection has not run and
\* never runs, the command list is neither modified nor composed, and no
\* terminal is spawned.
C2_CancelStopsRun ==
    cancelled \in {"list", "search"} =>
        /\ steps = {}
        /\ spawned = <<>>
        /\ config.custom_commands = base_commands
        /\ pc = "exit"

\* C2 witness: the user interrupted the search prompt after a walk that found
\* directories.
C2_Witness == cancelled = "search" /\ possible_directories # <<>> /\ pc = "exit"

\* the first yielded directory with the given leaf name
FirstWithLeaf(name) ==
    possible_directories[
        CHOOSE i \in Yielded :
            /\ split(possible_directories[i])[2] = name
            /\ \A j \in 1..(i - 1) : split(possible_directories[j])[2] # name]

\* C3, as claimed: a name that several discovered directories share resolves
\* to the one yielded first.
C3_FirstWins ==
    (mode = "find" /\ pc = "check") =>
        project_path = FirstWithLeaf(Last(project_path))

\* C4: with a manager detected and activation decided, the commands run are
\* [activation] + base commands + [editor command] when the manager has an
\* activation command, and otherwise each base command prefixed with the
\* manager's command and one space, in order, then the unprefixed editor command.
C4_ActivatedPlan ==
    \A n \in 1..Len(spawned) :
        LET s == spawned[n]
            plan == s.commands
            activated == \/ config.automatically_run_commands_in_env
                         \/ s.decision = "Yes please"
        IN (s.manager # NoManager /\ activated) =>
              IF s.manager.activation # ""
              THEN /\ Len(plan) = Len(base_commands) + 2
                   /\ plan[1] = s.manager.activation
                   /\ \A i \in 1..Len(base_commands) : plan[i + 1] = base_commands[i]
                   /\ plan[Len(plan)] = config.editor \o " ."
              ELSE /\ Len(plan) = Len(base_commands) + 1
                   /\ \A i \in 1..Len(base_commands) :
                         plan[i] = s.manager.command \o " " \o base_commands[i]
                   /\ plan[Len(plan)] = config.editor \o " ."

\* C4 witness: a terminal was spawned for a manager without activation
\* command, activation decided by the user, over two base commands.
C4_Witness ==
    /\ Len(spawned) = 1
    /\ spawned[1].manager # NoManager /\ spawned[1].manager.activation = ""
    /\ spawned[1].decision = "Yes please"
    /\ Len(base_commands) = 2

\* the names in the project directory
Content == ToSet(listdir(fs, project_path))

\* C5: detection selects the signature of lowest index whose marker file is
\* in the project directory, however many later ones match; with no match it
\* finds none and the run goes on without error.
C5_FirstMatchWins ==
    "detect" \in steps =>
        LET ms == config.dependency_managers
            hit == {i \in 1..Len(ms) : ms[i].file \in Content}
        IN IF hit = {}
           THEN manager = NoManager /\ fault = "" /\ exit_code \in {-1, 0}
           ELSE \E i \in hit : manager = ms[i] /\ \A j \in hit : i <= j

\* C5 witness: detection ran over two different signatures that both match.
C5_Witness ==
    /\ "detect" \in steps
    /\ Len(config.dependency_managers) = 2
    /\ config.dependency_managers[1] # config.dependency_managers[2]
    /\ \A i \in 1..2 : config.dependency_managers[i].file \in Content

\* C6, as claimed: the check and the composition run twice on one
\* configuration, the same directory and the same user decision give the same
\* command plan.
C6_SamePlanTwice ==
    (Len(spawned) >= 2 /\ spawned[1].decision = spawned[2].decision) =>
        spawned[2].commands = spawned[1].commands

\* C7, as claimed: a search whose candidate set was empty, and at whose
\* prompt the user submitted a text rather than interrupting, ends with no
\* unhandled fault and reports "no projects found".
C7_EmptyCandidatesCancelled ==
    (pc = "exit" /\ mode = "find" /\ possible_directories = <<>> /\ cancelled = "") =>
        /\ fault = ""
        /\ \E i \in 1..Len(printed) : printed[i] = "no projects found"

\* C8, as claimed: the traversal yields each real directory at most once.
C8_EachRealDirOnce ==
    \A i, j \in Yielded :
        i # j => realpath(fs, possible_directories[i]) # realpath(fs, possible_directories[j])

\* C9, as claimed: a run the user cancelled at a prompt exits with a code
\* other than 0.
C9_CancelExitsNonZero == cancelled # "" => exit_code # 0

\* C10: with no manager detected, or neither policy flag set, or the user
\* declining, the configured command list is unchanged and the commands run
\* are the base commands in order, then the editor command.
C10_SkippedPlan ==
    \A n \in 1..Len(spawned) :
        LET s == spawned[n]
            skipped == \/ s.manager = NoManager
                       \/ /\ ~ config.automatically_run_commands_in_env
                          /\ ~ config.ask_for_env_activation
                       \/ s.decision = "Nope"
        IN skipped =>
              /\ config.custom_commands = base_commands
              /\ Len(s.commands) = Len(base_commands) + 1
              /\ \A i \in 1..Len(base_commands) : s.commands[i] = base_commands[i]
              /\ s.commands[Len(s.commands)] = config.editor \o " ."

\* C10 witness: a terminal was spawned after the user declined to activate a
\* detected manager, over two base commands.
C10_Witness ==
    /\ Len(spawned) = 1
    /\ spawned[1].manager # NoManager
    /\ spawned[1].decision = "Nope"
    /\ Len(base_commands) = 2

====
